---- MODULE Spec2Model ----
(***************************************************************************)
(* A model of the median-filter VST plugin: the parameter table and the    *)
(* host parameter protocol generated from it (common/src/macros.rs), and   *)
(* the plugin object with its audio callback (median_filter/src/lib.rs).   *)
(*                                                                         *)
(* Numbers.  A normalized f32 parameter value x is the integer x*One, with *)
(* One == Hundred*Res, so that x * 100.0 is the rational n/Res and         *)
(* `as usize` is its truncation.  Audio samples are integers, and an       *)
(* output sample is kept multiplied by One (the blend's two weights sum to *)
(* One).  f32 rounding error, NaN and infinities are outside the model.    *)
(*                                                                         *)
(* Concurrency.  The host calls the PluginParameters object from control   *)
(* contexts while the audio context runs process(); the steps of the model *)
(* are the atomic loads and stores of the AtomicFloat cells and the host   *)
(* callbacks between them.                                                 *)
(***************************************************************************)
EXTENDS Integers, Sequences, FiniteSets, TLC

VARIABLES
    params,            \* RawParameters: the AtomicFloat cells, by field name
    host,              \* the HostCallback's view: per index, the edits begun and not yet ended
    ctl,               \* each control context's position inside set_parameter
    ev,                \* the call or step that produced the current state, with its result
    pc,                \* the audio context's position: new/init/process
    left_filter,       \* MedianFilter.left_filter
    right_filter,      \* MedianFilter.right_filter
    last_window_size,  \* MedianFilter.last_window_size
    locals,            \* the locals of the process call in flight (or of the last one)
    buffer,            \* the AudioBuffer of the process call in flight (or of the last one)
    nproc              \* number of process calls started

vars == <<params, host, ctl, ev, pc, left_filter, right_filter,
          last_window_size, locals, buffer, nproc>>

paramVars == <<params, host, ctl>>
audioVars == <<pc, left_filter, right_filter, last_window_size, locals, buffer, nproc>>

(***************************************************************************)
(* Bounds and numeric scale.                                               *)
(***************************************************************************)
Res == 10          \* steps of the model's number line per unit of x * 100.0
Hundred == 100     \* the factor of the window-size scaling
InitialWindow == 50 \* Filter::new(50), last_window_size: 50 in MedianFilter::new
IdxSlack == 1      \* how far outside 0..COUNT-1 the host's indices go
MaxOver == 20      \* how far outside [0,1] stored values go, in steps
MaxProcess == 2    \* process calls
ScenarioLen == 200 \* samples per channel of the long buffer of constant 1.0

One == Hundred * Res
Half == One \div 2

Max(a, b) == IF a >= b THEN a ELSE b

(***************************************************************************)
(* The parameter table and what the macros generate from it.               *)
(***************************************************************************)
COUNT == 2

table ==
    << [variant |-> "WetDry",     idx |-> 0, name |-> "Wet/Dry",
        field_name |-> "wet_dry",     default |-> Half],
       [variant |-> "WindowSize", idx |-> 1, name |-> "Window Size",
        field_name |-> "window_size", default |-> Half] >>

ParameterType == {table[k].variant : k \in DOMAIN table}
Fields == {table[k].field_name : k \in DOMAIN table}

Row(p) == table[CHOOSE k \in DOMAIN table : table[k].variant = p]

Err == [ok |-> FALSE, val |-> "none"]
Ok(p) == [ok |-> TRUE, val |-> p]

\* impl TryFrom<i32> for ParameterType: the first arm whose idx matches, else Err(())
try_from_off_by_one(x) ==
    IF \E k \in DOMAIN table : table[k].idx + 1 = x
    THEN Ok(table[CHOOSE k \in DOMAIN table : table[k].idx + 1 = x].variant)
    ELSE Err

try_from(x) ==
    IF \E k \in DOMAIN table : table[k].idx = x
    THEN Ok(table[CHOOSE k \in DOMAIN table :
                     /\ table[k].idx = x
                     /\ \A j \in DOMAIN table : table[j].idx = x => k <= j].variant)
    ELSE Err

\* impl From<ParameterType> for i32
into_i32_ordinal(p) == IF p = "WindowSize" THEN 0 ELSE 1

into_i32(p) == Row(p).idx

\* impl Display for ParameterType
to_string(p) == Row(p).name

\* RawParameters::get_ref: the cell of a parameter
get_ref(p) == Row(p).field_name

\* RawParameters::get_default
get_default(p) == Row(p).default

\* RawParameters::default(host): every cell at its default
RawParameters_default == [f \in Fields |->
    table[CHOOSE k \in DOMAIN table : table[k].field_name = f].default]

(***************************************************************************)
(* Derived parameters: impl From<&RawParameters> for Parameters.           *)
(***************************************************************************)
\* (x * 100.0) as usize, for the stored integer n = x*One: truncation toward
\* zero, and saturation at 0 for a negative value
as_usize_times_100(n) == IF n < 0 THEN 0 ELSE n \div Res

Parameters_from_rounding(raw) ==
    [window_size |-> Max(IF raw.window_size < 0 THEN 0
                         ELSE (2 * raw.window_size + Res) \div (2 * Res), 1),
     wet_dry     |-> raw.wet_dry]

Parameters_from_no_floor(raw) ==
    [window_size |-> as_usize_times_100(raw.window_size),
     wet_dry     |-> raw.wet_dry]

Parameters_from(raw) ==
    [window_size |-> Max(as_usize_times_100(raw.window_size), 1),
     wet_dry     |-> raw.wet_dry]

(***************************************************************************)
(* RawParameters: get, set and get_strings.                                *)
(***************************************************************************)
\* RawParameters::get
get(raw, p) == raw[get_ref(p)]

\* format!("{:.2}", value) of the rational n/Res: two decimals, nearest
fmt_2(n) ==
    LET a == IF n < 0 THEN -n ELSE n
        h == (2 * a * 100 + Res) \div (2 * Res)
        d == h % 100
    IN  (IF n < 0 /\ h > 0 THEN "-" ELSE "") \o ToString(h \div 100) \o "."
            \o (IF d < 10 THEN "0" ELSE "") \o ToString(d)

\* RawParameters::get_strings: (value text, unit text)
get_strings(raw, p) ==
    LET ps == Parameters_from(raw)
    IN  IF p = "WetDry"
        THEN <<fmt_2(ps.wet_dry), "% Wet">>         \* wet_dry * 100.0 is wet_dry/Res
        ELSE <<ToString(ps.window_size), " Samples">>

\* HostCallback::begin_edit / end_edit, as the host sees them
begin_edit(h, i) == [h EXCEPT ![i] = @ + 1]
end_edit(h, i) == [h EXCEPT ![i] = @ - 1]

(***************************************************************************)
(* impl PluginParameters for RawParameters: the host-facing, index-        *)
(* addressed operations.  The queries are functions of the cells.          *)
(***************************************************************************)
get_parameter_label(raw, index) ==
    IF try_from(index).ok THEN get_strings(raw, try_from(index).val)[2] ELSE ""

get_parameter_text(raw, index) ==
    IF try_from(index).ok THEN get_strings(raw, try_from(index).val)[1] ELSE ""

get_parameter_name(index) ==
    IF try_from(index).ok THEN to_string(try_from(index).val) ELSE ""

get_parameter(raw, index) ==
    IF try_from(index).ok THEN get(raw, try_from(index).val) ELSE 0

can_be_automated(index) == try_from(index).ok

string_to_parameter(index, text) == FALSE

(***************************************************************************)
(* The host's inputs.                                                      *)
(***************************************************************************)
Contexts == {"automation", "ui"}
Indices == (0 - IdxSlack) .. (COUNT - 1 + IdxSlack)
TableIndices == 0 .. (COUNT - 1)

\* normalized values the host sends: 0.0, 0.5 (the default) and 1.0
Values == {0, Half, One}

Idle == [pc |-> "idle", index |-> 0, parameter |-> "none", value |-> 0]

\* a call with its arguments and what it returned: a number, a string or a bool
Event(op, index, val) == [val |-> val, index |-> index, text |-> "", op |-> op, yes |-> FALSE]
TextEvent(op, index, text) == [Event(op, index, 0) EXCEPT !.text = text]
BoolEvent(op, index, yes) == [Event(op, index, 0) EXCEPT !.yes = yes]

(***************************************************************************)
(* set_parameter, in its atomic steps.                                     *)
(***************************************************************************)
\* set_parameter up to the first host callback: the index conversion, the
\* echo test against the cell, and set's begin_edit
set_parameter_echo_inverted(c, index, value) ==
    /\ ctl[c].pc = "idle"
    /\ IF ~try_from(index).ok
       THEN /\ ev' = Event("set_parameter:invalid", index, value)
            /\ UNCHANGED <<params, host, ctl>>
       ELSE IF get(params, try_from(index).val) # value
       THEN /\ ev' = Event("set_parameter:echo", index, value)
            /\ UNCHANGED <<params, host, ctl>>
       ELSE /\ host' = begin_edit(host, into_i32(try_from(index).val))
            /\ ctl' = [ctl EXCEPT ![c] = [pc |-> "store", index |-> index,
                           parameter |-> try_from(index).val, value |-> value]]
            /\ ev' = Event("set:begin_edit", into_i32(try_from(index).val), value)
            /\ UNCHANGED params
    /\ UNCHANGED audioVars

set_parameter(c, index, value) ==
    /\ ctl[c].pc = "idle"
    /\ IF ~try_from(index).ok
       THEN /\ ev' = Event("set_parameter:invalid", index, value)
            /\ UNCHANGED <<params, host, ctl>>
       ELSE IF get(params, try_from(index).val) = value
       THEN /\ ev' = Event("set_parameter:echo", index, value)
            /\ UNCHANGED <<params, host, ctl>>
       ELSE /\ host' = begin_edit(host, into_i32(try_from(index).val))
            /\ ctl' = [ctl EXCEPT ![c] = [pc |-> "store", index |-> index,
                           parameter |-> try_from(index).val, value |-> value]]
            /\ ev' = Event("set:begin_edit", into_i32(try_from(index).val), value)
            /\ UNCHANGED params
    /\ UNCHANGED audioVars

\* set: self.get_ref(parameter).set(value)
set_store_wrong_cell(c) ==
    /\ ctl[c].pc = "store"
    /\ params' = [f \in Fields |-> IF f = get_ref(ctl[c].parameter)
                                   THEN params[f] ELSE ctl[c].value]
    /\ ctl' = [ctl EXCEPT ![c].pc = "end_edit"]
    /\ ev' = Event("set:store", ctl[c].index, ctl[c].value)
    /\ UNCHANGED host
    /\ UNCHANGED audioVars

set_store(c) ==
    /\ ctl[c].pc = "store"
    /\ params' = [params EXCEPT ![get_ref(ctl[c].parameter)] = ctl[c].value]
    /\ ctl' = [ctl EXCEPT ![c].pc = "end_edit"]
    /\ ev' = Event("set:store", ctl[c].index, ctl[c].value)
    /\ UNCHANGED host
    /\ UNCHANGED audioVars

\* set: self.host.end_edit(parameter.into()), and the return
set_end_edit_dropped(c) ==
    /\ ctl[c].pc = "end_edit"
    /\ ctl' = [ctl EXCEPT ![c] = Idle]
    /\ ev' = Event("set:end_edit", into_i32(ctl[c].parameter), ctl[c].value)
    /\ UNCHANGED <<params, host>>
    /\ UNCHANGED audioVars

set_end_edit(c) ==
    /\ ctl[c].pc = "end_edit"
    /\ host' = end_edit(host, into_i32(ctl[c].parameter))
    /\ ctl' = [ctl EXCEPT ![c] = Idle]
    /\ ev' = Event("set:end_edit", into_i32(ctl[c].parameter), ctl[c].value)
    /\ UNCHANGED params
    /\ UNCHANGED audioVars

(***************************************************************************)
(* The queries, as calls a control context makes.                          *)
(***************************************************************************)
Query(e) ==
    /\ ev' = e
    /\ UNCHANGED <<params, host, ctl>>
    /\ UNCHANGED audioVars

call_get_parameter(index) ==
    Query(Event("get_parameter", index, get_parameter(params, index)))
call_get_parameter_name(index) ==
    Query(TextEvent("get_parameter_name", index, get_parameter_name(index)))
call_get_parameter_label(index) ==
    Query(TextEvent("get_parameter_label", index, get_parameter_label(params, index)))
call_get_parameter_text(index) ==
    Query(TextEvent("get_parameter_text", index, get_parameter_text(params, index)))
call_can_be_automated(index) ==
    Query(BoolEvent("can_be_automated", index, can_be_automated(index)))
call_string_to_parameter(index) ==
    Query(BoolEvent("string_to_parameter", index, string_to_parameter(index, "1.0")))

(***************************************************************************)
(* median::heap::Filter, the sliding-window median engine.  It is an       *)
(* external crate; the model follows the interface the plugin relies on:   *)
(* new(window length), consume (evicting the oldest sample of a full       *)
(* window), the readiness query and median.                                *)
(***************************************************************************)
Filter_new(size) == [size |-> size, samples |-> <<>>]

consume(f, x) ==
    [f EXCEPT !.samples = IF Len(@) >= f.size THEN Append(Tail(@), x) ELSE Append(@, x)]

\* the query the loop makes before reading the median: true once the engine
\* holds at least one sample
is_ready(f) == Len(f.samples) # 0

\* the sample in the middle of the sorted window
median(f) ==
    LET s == f.samples
        k == Len(s) \div 2
    IN  CHOOSE m \in {s[i] : i \in DOMAIN s} :
            /\ Cardinality({i \in DOMAIN s : s[i] < m}) <= k
            /\ Cardinality({i \in DOMAIN s : s[i] <= m}) > k

(***************************************************************************)
(* MedianFilter: new, init, reset_if_changed and process.                  *)
(***************************************************************************)
\* the host's buffers: 0, 1 or 2 samples per channel, each channel either
\* all ones or a zero followed by ones
BufferLengths == {0, 1, 2}
Ones(n) == [i \in 1..n |-> 1]
Step(n) == [i \in 1..n |-> IF i = 1 THEN 0 ELSE 1]
\* AudioBuffer::split: two input channels of the same length
Buffers == UNION {{Ones(n), Step(n)} \X {Ones(n), Step(n)} : n \in BufferLengths}

\* reset_if_changed's params.window_size with what it found and did (changed:
\* the window size the cell derives differs from the one it derived when the
\* previous call returned; warm: a filter held samples on entry; rebuilt),
\* process's params, and the window size the cell derives at the return
NoLocals == [window_size |-> 0, wet_dry |-> 0, reset_window_size |-> 0, changed |-> FALSE,
             warm |-> FALSE, rebuilt |-> FALSE, return_window_size |-> 0]
NoBuffer == [ready |-> <<<<>>, <<>>>>, inputs |-> <<<<>>, <<>>>>, outputs |-> <<<<>>, <<>>>>]

\* Plugin::init
init_rebuilding_filters ==
    /\ pc = "new"
    /\ last_window_size' = Parameters_from(params).window_size
    /\ left_filter' = Filter_new(Parameters_from(params).window_size)
    /\ right_filter' = Filter_new(Parameters_from(params).window_size)
    /\ pc' = "idle"
    /\ ev' = Event("init", 0, 0)
    /\ UNCHANGED <<locals, buffer, nproc>>
    /\ UNCHANGED paramVars

init ==
    /\ pc = "new"
    /\ last_window_size' = Parameters_from(params).window_size
    /\ pc' = "idle"
    /\ ev' = Event("init", 0, 0)
    /\ UNCHANGED <<left_filter, right_filter, locals, buffer, nproc>>
    /\ UNCHANGED paramVars

\* process is entered with the host's buffer; reset_if_changed loads the
\* cells and rebuilds both filters when the window size differs from the
\* recorded one
reset_if_changed_keeping_filters(b) ==
    /\ pc = "idle"
    /\ nproc < MaxProcess
    /\ LET ps == Parameters_from(params)
       IN  /\ UNCHANGED <<left_filter, right_filter>>
           /\ last_window_size' = ps.window_size
           /\ locals' = [NoLocals EXCEPT
                  !.reset_window_size = ps.window_size,
                  !.changed = (nproc > 0 /\ ps.window_size # locals.return_window_size),
                  !.warm = (is_ready(left_filter) \/ is_ready(right_filter)),
                  !.rebuilt = (ps.window_size # last_window_size)]
    /\ buffer' = [NoBuffer EXCEPT !.inputs = b]
    /\ nproc' = nproc + 1
    /\ pc' = "snapshot"
    /\ ev' = Event("process:reset_if_changed", 0, 0)
    /\ UNCHANGED paramVars

reset_if_changed_always(b) ==
    /\ pc = "idle"
    /\ nproc < MaxProcess
    /\ LET ps == Parameters_from(params)
       IN  /\ left_filter' = Filter_new(ps.window_size)
           /\ right_filter' = Filter_new(ps.window_size)
           /\ last_window_size' = ps.window_size
           /\ locals' = [NoLocals EXCEPT
                  !.reset_window_size = ps.window_size,
                  !.changed = (nproc > 0 /\ ps.window_size # locals.return_window_size),
                  !.warm = (is_ready(left_filter) \/ is_ready(right_filter)),
                  !.rebuilt = (ps.window_size # last_window_size)]
    /\ buffer' = [NoBuffer EXCEPT !.inputs = b]
    /\ nproc' = nproc + 1
    /\ pc' = "snapshot"
    /\ ev' = Event("process:reset_if_changed", 0, 0)
    /\ UNCHANGED paramVars

reset_if_changed(b) ==
    /\ pc = "idle"
    /\ nproc < MaxProcess
    /\ LET ps == Parameters_from(params)
       IN  /\ IF ps.window_size # last_window_size
              THEN /\ left_filter' = Filter_new(ps.window_size)
                   /\ right_filter' = Filter_new(ps.window_size)
                   /\ last_window_size' = ps.window_size
              ELSE UNCHANGED <<left_filter, right_filter, last_window_size>>
           /\ locals' = [NoLocals EXCEPT
                  !.reset_window_size = ps.window_size,
                  !.changed = (nproc > 0 /\ ps.window_size # locals.return_window_size),
                  !.warm = (is_ready(left_filter) \/ is_ready(right_filter)),
                  !.rebuilt = (ps.window_size # last_window_size)]
    /\ buffer' = [NoBuffer EXCEPT !.inputs = b]
    /\ nproc' = nproc + 1
    /\ pc' = "snapshot"
    /\ ev' = Event("process:reset_if_changed", 0, 0)
    /\ UNCHANGED paramVars

\* process: let params = Parameters::from(self.params.as_ref())
process_snapshot_stale ==
    /\ pc = "snapshot"
    /\ locals' = [locals EXCEPT !.window_size = InitialWindow,
                                !.wet_dry = RawParameters_default.wet_dry]
    /\ pc' = "left"
    /\ ev' = Event("process:snapshot", 0, 0)
    /\ UNCHANGED <<left_filter, right_filter, last_window_size, buffer, nproc>>
    /\ UNCHANGED paramVars

process_snapshot ==
    /\ pc = "snapshot"
    /\ locals' = [locals EXCEPT !.window_size = Parameters_from(params).window_size,
                                !.wet_dry = Parameters_from(params).wet_dry]
    /\ pc' = "left"
    /\ ev' = Event("process:snapshot", 0, 0)
    /\ UNCHANGED <<left_filter, right_filter, last_window_size, buffer, nproc>>
    /\ UNCHANGED paramVars

\* the body of one channel's loop for the sample x: consume; readiness; blend
channel_step_consume_last(st, x, wet_dry) ==
    LET out == IF is_ready(st.filter) THEN median(st.filter) ELSE 0
    IN  [filter |-> consume(st.filter, x),
         output |-> Append(st.output, x * (One - wet_dry) + out * wet_dry),
         ready  |-> Append(st.ready, is_ready(st.filter))]

channel_step(st, x, wet_dry) ==
    LET f2  == consume(st.filter, x)
        out == IF is_ready(f2) THEN median(f2) ELSE 0
    IN  [filter |-> f2,
         output |-> Append(st.output, x * (One - wet_dry) + out * wet_dry),
         ready  |-> Append(st.ready, is_ready(f2))]

\* the iterations lo..hi in order: the first half of the range is run to its
\* end (consume keeps the window length) before the rest is entered
RECURSIVE channel_range(_, _, _, _, _)
channel_range(st, input, wet_dry, lo, hi) ==
    IF lo > hi THEN st
    ELSE IF lo = hi THEN channel_step(st, input[lo], wet_dry)
    ELSE LET mid  == (lo + hi) \div 2
             done == channel_range(st, input, wet_dry, lo, mid)
         IN  IF done.filter.size = st.filter.size
             THEN channel_range(done, input, wet_dry, mid + 1, hi)
             ELSE done

\* one channel's loop: for i in 0..num_samples { consume; readiness; blend }
channel_loop(f, input, wet_dry, i, output, ready) ==
    channel_range([filter |-> f, output |-> output, ready |-> ready],
                  input, wet_dry, i, Len(input))

\* the loop with the readiness query made before the sample goes in
RECURSIVE channel_range_query_first(_, _, _, _, _)
channel_range_query_first(st, input, wet_dry, lo, hi) ==
    IF lo > hi THEN st
    ELSE IF lo = hi
    THEN LET f2  == consume(st.filter, input[lo])
             out == IF is_ready(st.filter) THEN median(f2) ELSE 0
         IN  [filter |-> f2,
              output |-> Append(st.output, input[lo] * (One - wet_dry) + out * wet_dry),
              ready  |-> Append(st.ready, is_ready(st.filter))]
    ELSE LET mid  == (lo + hi) \div 2
             done == channel_range_query_first(st, input, wet_dry, lo, mid)
         IN  IF done.filter.size = st.filter.size
             THEN channel_range_query_first(done, input, wet_dry, mid + 1, hi)
             ELSE done

process_channel_query_first(f, input, wet_dry) ==
    channel_range_query_first([filter |-> f, output |-> <<>>, ready |-> <<>>],
                              input, wet_dry, 1, Len(input))

process_channel_unblended(f, input, wet_dry) ==
    channel_loop(f, input, One, 1, <<>>, <<>>)

process_channel(f, input, wet_dry) == channel_loop(f, input, wet_dry, 1, <<>>, <<>>)

process_left ==
    /\ pc = "left"
    /\ LET r == process_channel(left_filter, buffer.inputs[1], locals.wet_dry)
       IN  /\ left_filter' = r.filter
           /\ buffer' = [buffer EXCEPT !.outputs[1] = r.output, !.ready[1] = r.ready]
    /\ pc' = "right"
    /\ ev' = Event("process:left", 0, 0)
    /\ UNCHANGED <<right_filter, last_window_size, locals, nproc>>
    /\ UNCHANGED paramVars

process_right_skipped ==
    /\ pc = "right"
    /\ locals' = [locals EXCEPT !.return_window_size = Parameters_from(params).window_size]
    /\ pc' = "idle"
    /\ ev' = Event("process:right", 0, 0)
    /\ UNCHANGED <<left_filter, right_filter, last_window_size, buffer, nproc>>
    /\ UNCHANGED paramVars

process_right_shared_filter ==
    /\ pc = "right"
    /\ LET r == process_channel(left_filter, buffer.inputs[2], locals.wet_dry)
       IN  /\ right_filter' = r.filter
           /\ buffer' = [buffer EXCEPT !.outputs[2] = r.output, !.ready[2] = r.ready]
    /\ locals' = [locals EXCEPT !.return_window_size = Parameters_from(params).window_size]
    /\ pc' = "idle"
    /\ ev' = Event("process:right", 0, 0)
    /\ UNCHANGED <<left_filter, last_window_size, nproc>>
    /\ UNCHANGED paramVars

process_right ==
    /\ pc = "right"
    /\ LET r == process_channel(right_filter, buffer.inputs[2], locals.wet_dry)
       IN  /\ right_filter' = r.filter
           /\ buffer' = [buffer EXCEPT !.outputs[2] = r.output, !.ready[2] = r.ready]
    /\ locals' = [locals EXCEPT !.return_window_size = Parameters_from(params).window_size]
    /\ pc' = "idle"
    /\ ev' = Event("process:right", 0, 0)
    /\ UNCHANGED <<left_filter, last_window_size, nproc>>
    /\ UNCHANGED paramVars

(***************************************************************************)
(* The plugin after MedianFilter::new, and its steps.                      *)
(***************************************************************************)
Init ==
    /\ params = RawParameters_default
    /\ host = [i \in Indices |-> 0]
    /\ ctl = [c \in Contexts |-> Idle]
    /\ ev = Event("new", 0, 0)
    /\ pc = "new"
    /\ left_filter = Filter_new(InitialWindow)
    /\ right_filter = Filter_new(InitialWindow)
    /\ last_window_size = InitialWindow
    /\ locals = NoLocals
    /\ buffer = NoBuffer
    /\ nproc = 0

\* the calls of the control contexts Cs with the arguments Es (index, value)
Control(Cs, Es) ==
    \/ \E c \in Cs, e \in Es : set_parameter(c, e[1], e[2])
    \/ \E c \in Cs : set_store(c)
    \/ \E c \in Cs : set_end_edit(c)

Queries ==
    \/ \E i \in Indices : call_get_parameter(i)
    \/ \E i \in Indices : call_get_parameter_name(i)
    \/ \E i \in Indices : call_get_parameter_label(i)
    \/ \E i \in Indices : call_get_parameter_text(i)
    \/ \E i \in Indices : call_can_be_automated(i)
    \/ \E i \in Indices : call_string_to_parameter(i)

Audio ==
    \/ init
    \/ \E b \in Buffers : reset_if_changed(b)
    \/ process_snapshot
    \/ process_left
    \/ process_right

Next == Control(Contexts, Indices \X Values) \/ Queries \/ Audio

\* the whole plugin
Spec == Init /\ [][Next]_vars

\* the parameter object alone, under every control context
NextParams == Control(Contexts, Indices \X Values) \/ Queries
SpecParams == Init /\ [][NextParams]_vars
\* set is straight-line code around two host callbacks that return: a context
\* inside it keeps running until it has returned
SpecParamsFair ==
    SpecParams /\ \A c \in Contexts : WF_vars(set_store(c)) /\ WF_vars(set_end_edit(c))

\* the audio callback against one control context
AudioEdits == {<<0, 0>>, <<0, One>>, <<1, 0>>, <<1, Half + 1>>}
NextAudio == Control({"automation"}, AudioEdits) \/ Audio
SpecAudio == Init /\ [][NextAudio]_vars

\* the derivation of the scaled parameters, over every stored window-size
\* value from below 0.0 to above 1.0
StoredRange == (0 - MaxOver) .. (One + MaxOver)
InitDerive ==
    /\ params \in [window_size : StoredRange, wet_dry : {0, Half, One}]
    /\ host = [i \in Indices |-> 0]
    /\ ctl = [c \in Contexts |-> Idle]
    /\ ev = Event("new", 0, 0)
    /\ pc = "new"
    /\ left_filter = Filter_new(InitialWindow)
    /\ right_filter = Filter_new(InitialWindow)
    /\ last_window_size = InitialWindow
    /\ locals = NoLocals
    /\ buffer = NoBuffer
    /\ nproc = 0
NextDerive ==
    \/ init
    \/ \E i \in TableIndices : call_get_parameter_text(i)
SpecDerive == InitDerive /\ [][NextDerive]_vars

\* every operation of the plugin against every other: one control context's
\* set calls and queries, init, and process on a one-sample buffer
WriterEdits == {<<0, One>>, <<1, 0>>}
NextWriters ==
    \/ Control({"automation"}, WriterEdits \cup {<<COUNT, One>>})
    \/ Queries
    \/ init
    \/ reset_if_changed(<<Ones(1), Step(1)>>)
    \/ process_snapshot
    \/ process_left
    \/ process_right
SpecWriters == Init /\ [][NextWriters]_vars

\* the audio callback alone, over buffers of every length, with the cells as
\* earlier set calls left them: below 0.0, 0.0, the default, above 1.0
ProcessCells == {0 - MaxOver, 0, Half, One + MaxOver}
InitProcess ==
    /\ params \in [window_size : ProcessCells, wet_dry : {0, Half, One}]
    /\ host = [i \in Indices |-> 0]
    /\ ctl = [c \in Contexts |-> Idle]
    /\ ev = Event("new", 0, 0)
    /\ pc = "new"
    /\ left_filter = Filter_new(InitialWindow)
    /\ right_filter = Filter_new(InitialWindow)
    /\ last_window_size = InitialWindow
    /\ locals = NoLocals
    /\ buffer = NoBuffer
    /\ nproc = 0
SpecProcess == InitProcess /\ [][Audio]_vars
\* process is straight-line code and two counted loops, with no call that
\* blocks: once entered it keeps running
SpecProcessFair ==
    SpecProcess /\ WF_vars(process_snapshot) /\ WF_vars(process_left) /\ WF_vars(process_right)

\* the audio callback alone, at the default parameters, on identical-channel
\* buffers of constant 1.0: empty, one sample, just short of the window, the
\* window, and longer up to the long buffer
ScenarioLengths == {0, 1, InitialWindow - 1, InitialWindow, ScenarioLen \div 2, ScenarioLen}
NextScenario ==
    \/ init
    \/ \E n \in ScenarioLengths : reset_if_changed(<<Ones(n), Ones(n)>>)
    \/ process_snapshot
    \/ process_left
    \/ process_right
SpecScenario == Init /\ [][NextScenario]_vars

(***************************************************************************)
(* Properties of the parameter object (SpecParams).                        *)
(***************************************************************************)
\* the cell the table gives index i
CellOf(i) == table[CHOOSE k \in DOMAIN table : table[k].idx = i].field_name
StoreStep(c) == ctl[c].pc = "store" /\ ctl'[c].pc = "end_edit"

\* C1: a get_parameter(index) made right after set's store of v to that index
\* returns v, the store leaves the cells of the other parameters unchanged, and
\* no step but a store changes what get_parameter returns
C1_GetAfterSet ==
    [][ /\ \A c \in Contexts : StoreStep(c) =>
             /\ ctl[c].index \in TableIndices
             /\ get_parameter(params', ctl[c].index) = ctl[c].value
             /\ \A f \in Fields \ {CellOf(ctl[c].index)} : params'[f] = params[f]
        /\ (\A c \in Contexts : ~StoreStep(c)) =>
             \A i \in Indices : get_parameter(params', i) = get_parameter(params, i)
        /\ ev'.op = "get_parameter" /\ ev'.index \in TableIndices =>
             ev'.val = params[CellOf(ev'.index)]
      ]_vars

C1_Witness ==
    /\ ev.op = "get_parameter" /\ ev.index = 1 /\ ev.val = One
    /\ \A c \in Contexts : ctl[c].pc = "idle"

\* the steps a set call and the cells may take (C2)
C2_Steps ==
        /\ \A f \in Fields : params'[f] # params[f] =>
             \E c \in Contexts : /\ StoreStep(c)
                                 /\ CellOf(ctl[c].index) = f
                                 /\ host[ctl[c].index] >= 1
        /\ \A c \in Contexts :
             /\ ctl[c].pc = "idle" /\ ctl'[c] # ctl[c] =>
                  /\ ctl'[c].pc = "store"
                  /\ host' = [host EXCEPT ![ctl'[c].index] = @ + 1]
                  /\ params' = params
             /\ ctl[c].pc = "store" /\ ctl'[c] # ctl[c] =>
                  /\ ctl'[c] = [ctl[c] EXCEPT !.pc = "end_edit"]
                  /\ params'[CellOf(ctl[c].index)] = ctl[c].value
                  /\ host' = host
             /\ ctl[c].pc = "end_edit" /\ ctl'[c] # ctl[c] =>
                  /\ ctl'[c].pc = "idle"
                  /\ host' = [host EXCEPT ![ctl[c].index] = @ - 1]
                  /\ params' = params
        /\ \A i \in Indices : host'[i] = Cardinality({c \in Contexts :
                                  ctl'[c].pc # "idle" /\ ctl'[c].index = i})

\* C2: a cell changes only in the store step of a set call that has issued
\* begin_edit for that index and has not yet issued end_edit; a call goes
\* begin_edit, store, end_edit and returns only through end_edit; per index the
\* edits begun and not ended are exactly the set calls in flight, so with no
\* call in flight every begin_edit has its end_edit; and a call that has issued
\* begin_edit goes on to store, and one that has stored goes on to end_edit
C2_Bracketed ==
    /\ \A c \in Contexts : /\ (ctl[c].pc = "store") ~> (ctl[c].pc = "end_edit")
                           /\ (ctl[c].pc = "end_edit") ~> (ctl[c].pc = "idle")
    /\ [][C2_Steps]_vars

C2_Witness ==
    /\ ev.op = "set:end_edit" /\ ev.index = 1
    /\ params.window_size = ev.val /\ params.window_size # Half
    /\ \A i \in Indices : host[i] = 0
    /\ \A c \in Contexts : ctl[c].pc = "idle"

\* C3: a set_parameter whose value equals the stored one is a no-op: no
\* begin_edit, no end_edit, no cell changed; and no call that begins an edit
\* carries the value its cell holds
C3_EchoNoOp ==
    [][ /\ ev'.op = "set_parameter:echo" =>
             /\ ev'.index \in TableIndices
             /\ params[CellOf(ev'.index)] = ev'.val
             /\ params' = params /\ host' = host /\ ctl' = ctl
        /\ ev'.op = "set:begin_edit" => params[CellOf(ev'.index)] # ev'.val
      ]_vars

C3_Witness ==
    /\ ev.op = "set_parameter:echo" /\ ev.val = One /\ ev.index = 0
    /\ params.wet_dry = One

Neutral(raw, i) ==
    /\ get_parameter(raw, i) = 0
    /\ get_parameter_name(i) = ""
    /\ get_parameter_label(raw, i) = ""
    /\ get_parameter_text(raw, i) = ""
    /\ can_be_automated(i) = FALSE

\* C4: for an index outside 0..COUNT-1 set_parameter changes no cell and
\* notifies nobody, get_parameter is 0.0, name, label and text are empty and
\* can_be_automated is false; can_be_automated is true exactly on 0..COUNT-1
C4_InvalidIndexNeutral ==
    [][ /\ \A i \in Indices \ TableIndices : Neutral(params, i) /\ Neutral(params', i)
        /\ \A i \in Indices : can_be_automated(i) <=> i \in TableIndices
        /\ ev'.op = "set_parameter:invalid" =>
             params' = params /\ host' = host /\ ctl' = ctl
        /\ ev'.op \in {"set:begin_edit", "set_parameter:echo"} => ev'.index \in TableIndices
        /\ ev'.index \notin TableIndices =>
             /\ ev'.op = "get_parameter" => ev'.val = 0
             /\ ev'.op \in {"get_parameter_name", "get_parameter_label",
                            "get_parameter_text"} => ev'.text = ""
             /\ ev'.op = "can_be_automated" => ev'.yes = FALSE
             /\ params' = params /\ host' = host /\ ctl' = ctl
      ]_vars

C4_Witness ==
    /\ ev.op = "set_parameter:invalid" /\ ev.index = COUNT
    /\ params # RawParameters_default

\* C5: index -> identifier -> index is the identity on the table's indices,
\* identifier -> index -> identifier is the identity, the valid indices are
\* exactly 0..COUNT-1, and any other index converts to Err; the index a set
\* call notifies the host with is the index it was called with
C5_IndexBijection ==
    /\ \A i \in Indices : try_from(i).ok => into_i32(try_from(i).val) = i
    /\ \A p \in ParameterType : try_from(into_i32(p)) = Ok(p)
    /\ {i \in Indices : try_from(i).ok} = TableIndices
    /\ \A i \in Indices \ TableIndices : try_from(i) = Err
    /\ Cardinality(ParameterType) = COUNT
    /\ \A c \in Contexts : ctl[c].pc # "idle" =>
          /\ try_from(ctl[c].index) = Ok(ctl[c].parameter)
          /\ into_i32(ctl[c].parameter) = ctl[c].index
    /\ ev.op \in {"set:begin_edit", "set:end_edit"} => host[ev.index] >= 0

C5_Witness ==
    /\ ev.op = "set:begin_edit" /\ ev.index = COUNT - 1
    /\ \E c \in Contexts : ctl[c].pc = "store" /\ ctl[c].index = COUNT - 1

\* C18: with two control contexts setting the same parameter, a call that
\* issues begin_edit and end_edit stores a value that differs from the one the
\* cell holds at the time of the store
C18_NotifyOnlyOnChange ==
    [][ \A c \in Contexts : StoreStep(c) =>
            /\ host[ctl[c].index] >= 1
            /\ params[CellOf(ctl[c].index)] # ctl[c].value
            /\ params' # params
      ]_vars

(***************************************************************************)
(* Properties of the derived parameters (SpecDerive).                      *)
(***************************************************************************)
\* x * 100.0 rounded to the nearest integer (halves away from zero), and
\* truncated, for a stored value n >= 0; each is the w its inequality fixes
Rounded(n) == CHOOSE w \in 0 .. n : 2 * Res * w - Res <= 2 * n /\ 2 * n < 2 * Res * w + Res
Truncated(n) == CHOOSE w \in 0 .. n : Res * w <= n /\ n < Res * (w + 1)

\* C7 as stated: for x in [0,1] the derived window_size (what init records
\* and the text query prints) is round(x * 100) raised to 1, and the derived
\* wet_dry is the stored mix value
C7_RoundsToNearest ==
    params.window_size \in 0 .. One =>
        /\ pc = "idle" => last_window_size = Max(Rounded(params.window_size), 1)
        /\ ev.op = "get_parameter_text" /\ ev.index = 1 =>
               ev.text = ToString(Max(Rounded(params.window_size), 1))
        /\ Parameters_from(params).wet_dry = params.wet_dry

\* C7 amended: for x in [0,1] the derived window_size is x * 100 truncated
\* toward zero and raised to 1 (what init records and the text query prints),
\* and the derived wet_dry is the stored mix value
C7_Truncates ==
    params.window_size \in 0 .. One =>
        /\ Parameters_from(params).window_size = Max(Truncated(params.window_size), 1)
        /\ Parameters_from(params).wet_dry = params.wet_dry
        /\ pc = "idle" => last_window_size = Max(Truncated(params.window_size), 1)
        /\ ev.op = "get_parameter_text" /\ ev.index = 1 =>
               ev.text = ToString(Max(Truncated(params.window_size), 1))

C7_Witness ==
    /\ pc = "idle"
    /\ params.window_size = 2 * Res + (Res + 1) \div 2
    /\ last_window_size = 2
    /\ ev.op = "get_parameter_text" /\ ev.index = 1 /\ ev.text = "2"

\* C8: the derived window_size is at least 1 whatever is stored, within
\* 1..100 when the stored value is in [0,1], and 1, 50 and 100 for 0.0, 0.5
\* and 1.0
C8_WindowFloor ==
    LET w == Parameters_from(params).window_size
        x == params.window_size
    IN  /\ w \in Nat /\ w >= 1
        /\ pc = "idle" => last_window_size = w /\ last_window_size >= 1
        /\ x \in 0 .. One => w \in 1 .. Hundred
        /\ x = 0 => w = 1
        /\ x = Half => w = Hundred \div 2
        /\ x = One => w = Hundred

C8_Witness ==
    /\ pc = "idle"
    /\ params.window_size < 0
    /\ last_window_size = 1

(***************************************************************************)
(* Properties of the audio callback (SpecAudio; C12 SpecWriters, C17       *)
(* SpecProcess).                                                           *)
(***************************************************************************)
Filtering == pc \in {"left", "right"}

\* C6: when a process call starts filtering, both filters have the window
\* length derived for that buffer, which is the recorded last_window_size
C6_FiltersAtDerivedLength ==
    Filtering =>
        /\ left_filter.size = locals.reset_window_size
        /\ right_filter.size = locals.reset_window_size
        /\ last_window_size = locals.reset_window_size

\* the last k elements of s
LastN(s, k) == IF Len(s) <= k THEN s ELSE SubSeq(s, Len(s) - k + 1, Len(s))
\* the filter f after the first i samples of input, written down directly
After(f, input, i) == [size |-> f.size, samples |-> LastN(f.samples \o SubSeq(input, 1, i), f.size)]
Filtered(f, input, i) == IF is_ready(After(f, input, i)) THEN median(After(f, input, i)) ELSE 0

\* C9 as stated: when the window size changed between the return of a process
\* call and the start of the next, both filters are rebuilt empty at the new
\* length before a sample is consumed and the first readiness query on each
\* filter during that buffer is false
C9_FirstQueryFalse ==
    locals.changed =>
        /\ locals.rebuilt
        /\ pc = "snapshot" => /\ left_filter = Filter_new(locals.reset_window_size)
                              /\ right_filter = Filter_new(locals.reset_window_size)
        /\ pc \in {"right", "idle"} /\ Len(buffer.inputs[1]) > 0 => buffer.ready[1][1] = FALSE
        /\ pc = "idle" /\ Len(buffer.inputs[2]) > 0 => buffer.ready[2][1] = FALSE

\* C9 amended: when the window_size derived at the start of a process call
\* differs from last_window_size (as after a change of the derived window
\* between two calls), both filters are rebuilt empty at the new length and the
\* length is recorded before a sample is consumed, warm or not; the buffer is
\* then filtered from that buffer's samples alone, and the first readiness
\* query on each filter, made after its first sample went in, is true
C9_RebuiltCold ==
    [][ /\ pc = "idle" /\ pc' = "snapshot" =>
             LET w == Parameters_from(params).window_size
             IN  IF w # last_window_size
                 THEN /\ left_filter' = [size |-> w, samples |-> <<>>]
                      /\ right_filter' = [size |-> w, samples |-> <<>>]
                      /\ last_window_size' = w
                      /\ locals'.rebuilt
                 ELSE /\ left_filter' = left_filter /\ right_filter' = right_filter
                      /\ last_window_size' = last_window_size
                      /\ ~locals'.rebuilt
        /\ pc' \in {"right", "idle"} /\ nproc' > 0 /\ locals'.rebuilt =>
             /\ left_filter'.samples = LastN(buffer'.inputs[1], locals'.reset_window_size)
             /\ Len(buffer'.inputs[1]) > 0 => buffer'.ready[1][1] = TRUE
        /\ pc' = "idle" /\ nproc' > 0 /\ locals'.rebuilt =>
             /\ right_filter'.samples = LastN(buffer'.inputs[2], locals'.reset_window_size)
             /\ Len(buffer'.inputs[2]) > 0 => buffer'.ready[2][1] = TRUE
      ]_vars

C9_Witness ==
    /\ pc = "idle" /\ nproc = 2
    /\ locals.changed /\ locals.warm /\ locals.rebuilt
    /\ Len(buffer.inputs[1]) > 0
    /\ buffer.ready[1][1] /\ buffer.ready[2][1]
    /\ Len(left_filter.samples) = Len(buffer.inputs[1])

BlendedWith(f, input, output, wet_dry) ==
    /\ Len(output) = Len(input)
    /\ \A i \in 1 .. Len(input) :
          /\ output[i] = input[i] * (One - wet_dry) + Filtered(f, input, i) * wet_dry
          /\ wet_dry = 0 => output[i] = input[i] * One
          /\ wet_dry = One => output[i] = Filtered(f, input, i) * One

\* C10: every output sample is input*(1 - wet_dry) + filtered*wet_dry, with
\* filtered the filter's median after that input sample (0.0 if it were not
\* ready): the input itself at wet_dry 0.0, the filter's value at wet_dry 1.0,
\* on both channels
C10_DryWetBlend ==
    [][ /\ pc = "left" /\ pc' = "right" =>
             BlendedWith(left_filter, buffer.inputs[1], buffer'.outputs[1], locals.wet_dry)
        /\ pc = "right" /\ pc' = "idle" =>
             /\ BlendedWith(right_filter, buffer.inputs[2], buffer'.outputs[2], locals.wet_dry)
             /\ buffer'.outputs[1] = buffer.outputs[1]
        /\ pc = "snapshot" /\ pc' = "left" => locals'.wet_dry = params.wet_dry
      ]_vars

C10_Witness ==
    /\ pc = "idle" /\ nproc = 2
    /\ locals.wet_dry = One
    /\ \E i \in DOMAIN buffer.outputs[1] : buffer.outputs[1][i] # buffer.inputs[1][i] * One
    /\ \E i \in DOMAIN buffer.outputs[2] : buffer.outputs[2][i] = buffer.inputs[2][i] * One

\* the values a cell can hold whole: its default and the values passed to set
\* for its index
Written(f) ==
    {RawParameters_default[f]} \cup {e[2] : e \in {d \in WriterEdits : CellOf(d[1]) = f}}

\* C12: a cell only ever holds its default or a value passed whole to a set on
\* it, and the loads of get_parameter and of the audio context return the
\* cell's value whole; when a set returns the cell holds its value, the cell
\* keeps it until a later set stores, every get_parameter returns what the
\* cell holds, and a process call derives its parameters from the cells as
\* they are when it loads them, so from the last value set
C12_NeverLostOrTorn ==
    [][ /\ \A f \in Fields : params'[f] \in Written(f)
        /\ ev'.op = "set:end_edit" => params'[CellOf(ev'.index)] = ev'.val
        /\ (\A c \in Contexts : ~StoreStep(c)) => params' = params
        /\ ev'.op = "get_parameter" /\ ev'.index \in TableIndices =>
             /\ ev'.val = params[CellOf(ev'.index)]
             /\ ev'.val \in Written(CellOf(ev'.index))
        /\ pc = "idle" /\ pc' = "snapshot" =>
             locals'.reset_window_size = Parameters_from(params).window_size
        /\ pc = "snapshot" /\ pc' = "left" =>
             /\ locals'.wet_dry = params.wet_dry
             /\ locals'.window_size = Parameters_from(params).window_size
             /\ locals'.wet_dry \in Written("wet_dry")
      ]_vars

C12_Witness ==
    /\ pc = "idle" /\ nproc = 2
    /\ \A c \in Contexts : ctl[c].pc = "idle"
    /\ ev.op = "get_parameter" /\ ev.index = 0 /\ ev.val = One
    /\ params.wet_dry = One /\ params.window_size = 0
    /\ locals.wet_dry = One /\ locals.reset_window_size = 1 /\ locals.window_size = 1
    /\ ~locals.changed

\* C14: a process call works from one snapshot of the derived parameters: the
\* snapshot whose wet_dry the blend uses has the window_size the rebuild
\* decision used, both loaded from the cells at one instant
C14_OneSnapshot ==
    Filtering =>
        /\ locals.window_size = locals.reset_window_size
        /\ locals.window_size = last_window_size

\* C15: entering process rebuilds both filters empty at the derived window
\* length and records it if and only if that length differs from
\* last_window_size; otherwise, whatever wet_dry and the normalized
\* window-size value are, both filters are left as they are, and the channel
\* loops add the buffer's samples to the ones kept from earlier buffers; no
\* other step touches the filters' length
C15_RebuildIffLengthDiffers ==
    [][ /\ pc = "idle" /\ pc' = "snapshot" =>
             LET w == Parameters_from(params).window_size
             IN  /\ locals'.rebuilt <=> (w # last_window_size)
                 /\ w # last_window_size =>
                       /\ left_filter' = Filter_new(w) /\ right_filter' = Filter_new(w)
                       /\ last_window_size' = w
                 /\ w = last_window_size =>
                       /\ left_filter' = left_filter /\ right_filter' = right_filter
                       /\ last_window_size' = last_window_size
        /\ pc = "left" /\ pc' = "right" =>
             /\ left_filter'.samples =
                    LastN(left_filter.samples \o buffer.inputs[1], left_filter.size)
             /\ right_filter' = right_filter
        /\ pc = "right" /\ pc' = "idle" =>
             /\ right_filter'.samples =
                    LastN(right_filter.samples \o buffer.inputs[2], right_filter.size)
             /\ left_filter' = left_filter
        /\ ~(pc = "idle" /\ pc' = "snapshot") =>
             /\ left_filter'.size = left_filter.size
             /\ right_filter'.size = right_filter.size
             /\ pc # "new" => last_window_size' = last_window_size
        /\ pc' = pc => left_filter' = left_filter /\ right_filter' = right_filter
      ]_vars

C15_Witness ==
    /\ pc = "idle" /\ nproc = 2
    /\ ~locals.rebuilt /\ locals.warm
    /\ params.window_size = Half + 1 /\ params.wet_dry = One /\ locals.wet_dry = One
    /\ last_window_size = InitialWindow
    /\ Len(buffer.inputs[1]) = 1 /\ Len(left_filter.samples) = 3
    /\ Len(right_filter.samples) = 3

\* what one channel's loop makes of its own filter f and its own input
ChannelResult(f, input, f2, output, wet_dry) ==
    /\ f2 = After(f, input, Len(input))
    /\ Len(output) = Len(input)
    /\ \A i \in 1 .. Len(input) :
          output[i] = input[i] * (One - wet_dry) + Filtered(f, input, i) * wet_dry

\* C17: the left channel's output and filter after a buffer are determined by
\* the left filter, the left input and wet_dry alone, and the right channel's
\* by the right filter, the right input and wet_dry alone; the left loop
\* leaves everything the right loop reads or writes as it was, and the right
\* loop leaves what the left loop wrote, so either order gives the same
\* outputs and filters
C17_ChannelsIndependent ==
    [][ /\ pc = "left" /\ pc' = "right" =>
             /\ ChannelResult(left_filter, buffer.inputs[1], left_filter',
                              buffer'.outputs[1], locals.wet_dry)
             /\ right_filter' = right_filter
             /\ buffer'.inputs = buffer.inputs /\ buffer'.outputs[2] = buffer.outputs[2]
             /\ locals'.wet_dry = locals.wet_dry
        /\ pc = "right" /\ pc' = "idle" =>
             /\ ChannelResult(right_filter, buffer.inputs[2], right_filter',
                              buffer'.outputs[2], locals.wet_dry)
             /\ left_filter' = left_filter
             /\ buffer'.inputs = buffer.inputs /\ buffer'.outputs[1] = buffer.outputs[1]
             /\ locals'.wet_dry = locals.wet_dry
        /\ pc \in {"left", "right"} /\ pc' = pc =>
             /\ left_filter' = left_filter /\ right_filter' = right_filter
             /\ buffer' = buffer /\ locals' = locals
      ]_vars

C17_Witness ==
    /\ pc = "idle" /\ nproc = 2
    /\ locals.wet_dry = One
    /\ Len(buffer.inputs[1]) = 2
    /\ buffer.inputs[1] # buffer.inputs[2]
    /\ buffer.outputs[1] # buffer.outputs[2]
    /\ left_filter.samples # right_filter.samples
    /\ Len(left_filter.samples) = 4

\* the readiness queries and blends of one channel's loop over its input
NeverSilenced(f, input, output, ready, wet_dry) ==
    /\ Len(ready) = Len(input)
    /\ \A i \in 1 .. Len(input) :
          /\ Len(After(f, input, i).samples) >= 1
          /\ ready[i] = TRUE
          /\ output[i] = input[i] * (One - wet_dry) + median(After(f, input, i)) * wet_dry

\* C19: at every readiness query of a process call the filter already holds
\* the sample just fed to it, so the query is true and the output sample is
\* blended with the filter's median, never with the substituted 0.0, in the
\* first buffer after construction and after a rebuild as in any other
C19_FallbackNeverSelected ==
    [][ /\ pc = "left" /\ pc' = "right" =>
             NeverSilenced(left_filter, buffer.inputs[1], buffer'.outputs[1],
                           buffer'.ready[1], locals.wet_dry)
        /\ pc = "right" /\ pc' = "idle" =>
             NeverSilenced(right_filter, buffer.inputs[2], buffer'.outputs[2],
                           buffer'.ready[2], locals.wet_dry)
      ]_vars

C19_Witness ==
    /\ pc = "idle" /\ nproc = 2
    /\ locals.rebuilt /\ locals.warm /\ locals.wet_dry = One
    /\ buffer.inputs[1] = Ones(2) /\ buffer.inputs[2] = Ones(2)
    /\ buffer.outputs[1] = <<One, One>> /\ buffer.outputs[2] = <<One, One>>
    /\ buffer.ready[1] = <<TRUE, TRUE>>

(***************************************************************************)
(* Who writes what (SpecWriters).                                          *)
(***************************************************************************)
SetOps == {"set_parameter:invalid", "set_parameter:echo",
           "set:begin_edit", "set:store", "set:end_edit"}
QueryOps == {"get_parameter", "get_parameter_name", "get_parameter_label",
             "get_parameter_text", "can_be_automated", "string_to_parameter"}
ProcessOps == {"process:reset_if_changed", "process:snapshot", "process:left", "process:right"}

\* C16: a cell changes only in set's store and the host is notified only by
\* set's begin_edit and end_edit; no step of set_parameter touches the filters,
\* last_window_size or anything else of the plugin object; process, init and
\* the queries leave every cell and the host's notifications as they are; the
\* filters change only in steps of process
C16_SeparateWriters ==
    [][ /\ params' # params => ev'.op = "set:store" /\ ctl' # ctl
        /\ host' # host => ev'.op \in {"set:begin_edit", "set:end_edit"} /\ ctl' # ctl
        /\ ctl' # ctl => ev'.op \in SetOps
        /\ ev'.op \in SetOps =>
             /\ left_filter' = left_filter /\ right_filter' = right_filter
             /\ last_window_size' = last_window_size
             /\ pc' = pc /\ locals' = locals /\ buffer' = buffer /\ nproc' = nproc
        /\ ev'.op \in ProcessOps \cup QueryOps \cup {"init"} =>
             params' = params /\ host' = host /\ ctl' = ctl
        /\ pc' # pc => ev'.op \in ProcessOps \cup {"init"}
        /\ left_filter' # left_filter \/ right_filter' # right_filter =>
             ev'.op \in {"process:reset_if_changed", "process:left", "process:right"}
        /\ ev'.op \in QueryOps => pc' = pc /\ left_filter' = left_filter
                                   /\ right_filter' = right_filter
                                   /\ last_window_size' = last_window_size
      ]_vars

C16_Witness ==
    /\ ev.op = "get_parameter_text" /\ ev.index = 1 /\ ev.text = "1"
    /\ pc = "right" /\ is_ready(left_filter) /\ last_window_size = InitialWindow
    /\ ctl["automation"].pc = "end_edit" /\ ctl["automation"].index = 1
    /\ host[1] = 1

(***************************************************************************)
(* Completion of a process call (SpecProcessFair).                         *)
(***************************************************************************)
\* the steps of a process call on the buffer: entry, then the left channel
\* written whole, then the right channel written whole, then the return
C13_Steps ==
    /\ pc' # pc =>
          <<pc, pc'>> \in {<<"new", "idle">>, <<"idle", "snapshot">>, <<"snapshot", "left">>,
                           <<"left", "right">>, <<"right", "idle">>}
    /\ pc = "idle" /\ pc' = "snapshot" =>
          /\ Len(buffer'.inputs[1]) = Len(buffer'.inputs[2])
          /\ buffer'.outputs = <<<<>>, <<>>>>
    /\ pc = "snapshot" /\ pc' = "left" => buffer' = buffer
    /\ pc = "left" /\ pc' = "right" =>
          /\ DOMAIN buffer'.outputs[1] = 1 .. Len(buffer.inputs[1])
          /\ buffer'.outputs[2] = <<>>
          /\ buffer'.inputs = buffer.inputs
    /\ pc = "right" /\ pc' = "idle" =>
          /\ DOMAIN buffer'.outputs[2] = 1 .. Len(buffer.inputs[2])
          /\ buffer'.outputs[1] = buffer.outputs[1]
          /\ buffer'.inputs = buffer.inputs
          /\ \A ch \in 1 .. 2 : \A i \in 1 .. Len(buffer.inputs[ch]) :
                buffer'.outputs[ch][i] \in Int

\* C13: a process call that has been entered returns, whatever the buffer
\* length and the stored values; it goes through both channel loops in order
\* with no other exit, and at its return each channel's output holds exactly
\* one sample at each position of its input
C13_RunsToCompletion ==
    /\ (pc \in {"snapshot", "left", "right"}) ~> (pc = "idle")
    /\ [][C13_Steps]_vars

C13_Witness ==
    /\ pc = "idle" /\ nproc = 2
    /\ params.window_size = One + MaxOver
    /\ Len(buffer.inputs[1]) = 2 /\ Len(left_filter.samples) = 3
    /\ Len(buffer.outputs[1]) = 2 /\ Len(buffer.outputs[2]) = 2

(***************************************************************************)
(* The warm-up scenario (SpecScenario).                                    *)
(***************************************************************************)
\* the first process call after construction has returned: defaults in the
\* cells, filters cold on entry
FirstCallDone ==
    /\ pc = "idle" /\ nproc = 1
    /\ params = RawParameters_default
    /\ ~locals.warm

\* C11 as stated: at the defaults (wet_dry 0.5, window 50), a buffer of
\* constant 1.0 fed to cold filters gives 0.5 for a sample that reaches a
\* filter that has not warmed up (holds no sample yet) and 1.0 for every
\* sample after it
C11_HalfBeforeWarmUp ==
    FirstCallDone =>
        \A ch \in 1 .. 2 : \A i \in 1 .. Len(buffer.inputs[ch]) :
            buffer.outputs[ch][i] = IF i = 1 THEN Half ELSE One

\* C11 amended: at the defaults, a buffer of constant 1.0 fed to cold filters
\* gives 1.0 at every position of both channels, the first included: each
\* sample is in the filter when readiness is queried, so no sample is blended
\* with 0.0 and none comes out as 0.5
C11_AllOnes ==
    FirstCallDone =>
        /\ locals.wet_dry = Half /\ locals.reset_window_size = InitialWindow
        /\ ~locals.rebuilt
        /\ \A ch \in 1 .. 2 :
              /\ Len(buffer.outputs[ch]) = Len(buffer.inputs[ch])
              /\ \A i \in 1 .. Len(buffer.inputs[ch]) :
                    /\ buffer.outputs[ch][i] = One
                    /\ buffer.outputs[ch][i] # Half
                    /\ buffer.ready[ch][i]

C11_Witness ==
    /\ FirstCallDone
    /\ Len(buffer.inputs[1]) = ScenarioLen /\ Len(buffer.inputs[2]) = ScenarioLen
    /\ buffer.outputs[1][1] = One /\ buffer.outputs[2][ScenarioLen] = One
    /\ Len(left_filter.samples) = InitialWindow

====
